---- MODULE Spec2Model ----
(***************************************************************************)
(* A model of the spectra-catalog browser: the stacCatalog Redux slice     *)
(* (src/src/redux/slices/stacCatalog.js), the Catalog component's local    *)
(* state and event handlers, and the map overlays kept by ItemAssetLayer   *)
(* and the draw control (src/src/components/Catalog.js).                   *)
(*                                                                         *)
(* One action is one event of the single JavaScript thread: a user event   *)
(* with the handler it runs, or the settlement of an asynchronous thunk    *)
(* with the reducer it dispatches to.  Every action includes the render    *)
(* and the effects React commits before the next event is handled.         *)
(***************************************************************************)
EXTENDS Integers, Sequences, FiniteSets, TLC

\* Bounds of the model.
MaxSearches == 2       \* item searches issued since the oldest one still pending
MaxCollPending == 1    \* collection-list fetches in flight at once
MaxTiles == 2          \* tile fetches a tile layer issues in one batch
MaxBatches == 2        \* batches of tile fetches one tile layer starts
MaxSuperseded == 1     \* pending delayed checks of removed tile layers

\* JavaScript null / undefined, and the truthiness `a || b` tests on strings.
NULL == "<null>"
Truthy(s) == s \notin {NULL, ""}
Or(a, b) == IF Truthy(a) THEN a ELSE b

(***************************************************************************)
(* Values.                                                                 *)
(***************************************************************************)
\* A catalog item as the map code reads it: its id, whether it has a
\* geometry, whether one of its assets has role "tiles" or "data" and an
\* href, and rid, which tells the response object it is part of (two items
\* of different responses are different objects even with equal ids).
Item(id, geometry, tiles, rid) ==
    [id |-> id, geometry |-> geometry, tiles |-> tiles, rid |-> rid]
NoItem == Item("", FALSE, FALSE, 0)

\* The feature lists a search response can carry: none, or two of the items
\* A and B (geometry and tiles), C (tiles, no geometry), D (geometry, no tiles).
FeatureLists(rid) ==
    { <<>>,
      <<Item("A", TRUE, TRUE, rid), Item("B", TRUE, TRUE, rid)>>,
      <<Item("C", FALSE, TRUE, rid), Item("D", TRUE, FALSE, rid)>> }

\* response.data of POST /search: features may be missing, next is a token
\* or missing.
SearchPayloads(rid) ==
    { [hasFeatures |-> TRUE, features |-> f, next |-> n] :
          f \in FeatureLists(rid), n \in {NULL, "tok1"} }
    \cup { [hasFeatures |-> FALSE, features |-> <<>>, next |-> NULL] }

\* error.response?.data?.message of a failed request: missing (a network
\* error), empty, or a message of the server.
ServerMessages == {NULL, "", "server says no"}

\* response.collections of GET /collections (ids only), or missing.
CollectionLists == { <<>>, <<"c1">> }
CollectionPayloads ==
    { [hasCollections |-> TRUE, collections |-> c] : c \in CollectionLists }
    \cup { [hasCollections |-> FALSE, collections |-> <<>>] }

DateInputs == {"", "2020-01-01"}
DrawnShapes == {"shape1", "shape2"}

\* A Leaflet layer object: kind is "tile", "outline", "extent", "preview" or "aoi"; id tells two
\* layer objects of one kind apart; itemId is the id of the item it was built
\* from ("" for a drawn shape).
Layer(kind, id, itemId) == [kind |-> kind, id |-> id, itemId |-> itemId]
NoLayer == Layer("", 0, "")

Max(a, b) == IF a >= b THEN a ELSE b
Min(a, b) == IF a <= b THEN a ELSE b

SeqToSet(s) == { s[k] : k \in DOMAIN s }
Includes(s, x) == x \in SeqToSet(s)
Filter(s, x) == SelectSeq(s, LAMBDA y : y # x)

(***************************************************************************)
(* GeoJSON values and geoJsonToGeometry (src/src/services/stac.service.js). *)
(***************************************************************************)
\* A coordinate pair is <<x, y>>; a ring is a sequence of pairs.  A geometry
\* object has a type (NULL when it has none), coordinates that are an array
\* or not (hasCoordinates) and, when they are, the array: for a Polygon its
\* rings.  A Feature has a geometry.  NoGeoJson is null or undefined.
NoGeoJson == [type |-> NULL]
Geometry(type, hasCoordinates, coordinates) ==
    [type |-> type, hasCoordinates |-> hasCoordinates, coordinates |-> coordinates]
Feature(geometry) == [type |-> "Feature", geometry |-> geometry]

GeometryTypes ==
    {"Point", "LineString", "Polygon", "MultiPoint", "MultiLineString", "MultiPolygon"}

\* The rings of the inputs: none, a closed and an open triangle, a two-point
\* ring whose ends differ in y only, and a single point.
Rings ==
    { <<>>,
      << <<0, 0>>, <<1, 0>>, <<1, 1>>, <<0, 0>> >>,
      << <<0, 0>>, <<1, 0>>, <<1, 1>> >>,
      << <<1, 0>>, <<1, 1>> >>,
      << <<0, 0>> >> }

RingLists ==
    { <<>> } \cup { <<r>> : r \in Rings } \cup { <<r, q>> : r \in Rings, q \in Rings }

\* The geometry objects of the inputs: polygons of up to two rings, objects of
\* the other types, of a type that is not accepted and of no type, with
\* coordinates or without.
GeometryInputs ==
    { Geometry("Polygon", TRUE, c) : c \in RingLists }
    \cup { Geometry(t, h, IF h THEN c ELSE <<>>) :
               t \in GeometryTypes \cup {"GeometryCollection", NULL},
               h \in BOOLEAN,
               c \in { <<>>, << << <<0, 0>>, <<1, 1>> >> >> } }

\* The arguments of geoJsonToGeometry: null, a geometry object, or a Feature
\* of a geometry object or of none.
GeoJsonInputs ==
    {NoGeoJson} \cup GeometryInputs
    \cup { Feature(g) : g \in GeometryInputs \cup {NoGeoJson} }

geoJsonToGeometry(geoJson) ==
    IF geoJson = NoGeoJson
    THEN NoGeoJson
    ELSE IF geoJson.type = "Feature"
    THEN geoJson.geometry
    ELSE IF Truthy(geoJson.type) /\ geoJson.type \in GeometryTypes
    THEN IF ~geoJson.hasCoordinates
         THEN NoGeoJson
         ELSE IF geoJson.type = "Polygon" /\ Len(geoJson.coordinates) > 0
              THEN LET ring == geoJson.coordinates[1]
                   IN IF Len(ring) > 0
                         /\ (ring[1][1] # ring[Len(ring)][1]
                                \/ ring[1][2] # ring[Len(ring)][2])
                      THEN [geoJson EXCEPT !.coordinates[1] = Append(ring, ring[1])]
                      ELSE geoJson
              ELSE geoJson
    ELSE NoGeoJson

(***************************************************************************)
(* Dates (the JavaScript Date of the operator's environment).              *)
(***************************************************************************)
\* An instant is a day number and the milliseconds elapsed of that UTC day;
\* day 1 is 2020-01-01.  NoDate is null or undefined, InvalidDate a Date
\* whose time value is NaN.  timeZone is the offset of local time from UTC
\* in hours (local = UTC + timeZone).
NoDate == [null |-> TRUE]
InvalidDate == [invalid |-> TRUE]
Instant(day, ms) == [day |-> day, ms |-> ms]

Calendar ==
    { [day |-> 0, date |-> "2019-12-31"], [day |-> 1, date |-> "2020-01-01"],
      [day |-> 2, date |-> "2020-01-02"], [day |-> 365, date |-> "2020-12-30"],
      [day |-> 366, date |-> "2020-12-31"], [day |-> 367, date |-> "2021-01-01"] }

TimeZones == {-5, 0, 7}

\* new Date(value) of the value of a date input: a date-only string is
\* midnight UTC of that day.
NewDate(value) ==
    IF \E c \in Calendar : c.date = value
    THEN Instant((CHOOSE c \in Calendar : c.date = value).day, 0)
    ELSE InvalidDate

\* Date.prototype.setHours: the fields of the local day are replaced.
setHours(date, timeZone, hours, minutes, seconds, milliseconds) ==
    LET localMs  == date.ms + timeZone * 3600000
        localDay == date.day + (IF localMs < 0 THEN -1
                                ELSE IF localMs >= 86400000 THEN 1 ELSE 0)
        utcMs    == ((hours * 60 + minutes) * 60 + seconds) * 1000 + milliseconds
                        - timeZone * 3600000
    IN  IF utcMs < 0 THEN Instant(localDay - 1, utcMs + 86400000)
        ELSE IF utcMs >= 86400000 THEN Instant(localDay + 1, utcMs - 86400000)
        ELSE Instant(localDay, utcMs)

\* Date.prototype.toISOString: the fields of the UTC day.
toISOString(date) ==
    [date         |-> (CHOOSE c \in Calendar : c.day = date.day).date,
     hours        |-> date.ms \div 3600000,
     minutes      |-> (date.ms \div 60000) % 60,
     seconds      |-> (date.ms \div 1000) % 60,
     milliseconds |-> date.ms % 1000]

\* formatDateRange (src/src/services/stac.service.js): the datetime range,
\* NoDatetime (null), or RangeError when toISOString throws.
OpenEnd == [open |-> TRUE]
NoDatetime == [null |-> TRUE]
RangeError == [thrown |-> TRUE]
DateRange(start, end) == [start |-> start, end |-> end]

\* formatDateRange returning a range open at both ends when no date is given.
formatDateRangeOpenRange(startDate, endDate, timeZone) ==
    IF startDate = InvalidDate \/ endDate = InvalidDate
    THEN RangeError
    ELSE DateRange(IF startDate # NoDate THEN toISOString(startDate) ELSE OpenEnd,
                   IF endDate # NoDate
                   THEN toISOString(setHours(endDate, timeZone, 23, 59, 59, 999))
                   ELSE OpenEnd)

formatDateRange(startDate, endDate, timeZone) ==
    IF startDate = InvalidDate \/ endDate = InvalidDate
    THEN RangeError
    ELSE LET start == IF startDate # NoDate THEN toISOString(startDate) ELSE OpenEnd
             end   == IF endDate # NoDate
                      THEN toISOString(setHours(endDate, timeZone, 23, 59, 59, 999))
                      ELSE OpenEnd
         IN  IF start # OpenEnd /\ end # OpenEnd THEN DateRange(start, end)
             ELSE IF start # OpenEnd THEN DateRange(start, OpenEnd)
             ELSE IF end # OpenEnd THEN DateRange(OpenEnd, end)
             ELSE NoDatetime

(***************************************************************************)
(* The search request: handleSearch, the searchItems thunk and the         *)
(* searchItems service.                                                    *)
(***************************************************************************)
\* A parameter object is a function from the keys it has to their values.
\* A key is given as <<value>> or left out as <<>>.
Optional(values) == { <<>> } \cup { <<v>> : v \in values }
Object(fields) == [k \in {f \in DOMAIN fields : fields[f] # <<>>} |-> fields[k][1]]
Has(object, key) == key \in DOMAIN object
With(object, key, value) ==
    [k \in DOMAIN object \cup {key} |-> IF k = key THEN value ELSE object[k]]
Without(object, key) == [k \in DOMAIN object \ {key} |-> object[k]]

\* boundsToBbox: [minx, miny, maxx, maxy] of Leaflet bounds.
Bounds(south, west, north, east) ==
    [sw |-> [lat |-> south, lng |-> west], ne |-> [lat |-> north, lng |-> east]]
boundsToBbox(bounds) == <<bounds.sw.lng, bounds.sw.lat, bounds.ne.lng, bounds.ne.lat>>

\* searchItems: the body of POST /search.
\* searchItems posting every parameter it was given.
searchItemsPostingParams(params) ==
    [k \in DOMAIN params \cup {"limit"} |->
        IF k = "limit"
        THEN IF Has(params, "limit") /\ params.limit # 0 THEN params.limit ELSE 100
        ELSE params[k]]

searchItems(params) ==
    LET supplied ==
            {k \in DOMAIN params \cap {"bbox", "intersects", "datetime", "collections", "next"} :
                CASE k = "bbox"        -> Len(params.bbox) = 4
                  [] k = "intersects"  -> params.intersects # NoGeoJson
                  [] k = "datetime"    -> params.datetime # NoDatetime
                  [] k = "collections" -> Len(params.collections) > 0
                  [] k = "next"        -> Truthy(params.next)}
    IN  [k \in supplied \cup {"limit"} |->
            IF k = "limit"
            THEN IF Has(params, "limit") /\ params.limit # 0 THEN params.limit ELSE 100
            ELSE params[k]]

\* The searchItems thunk up to its request: the request is issued with a
\* body, or the thunk rejects before any request.
Issued(body) == [issued |-> TRUE, body |-> body]
NoRequest == [issued |-> FALSE, body |-> <<>>]

DateParam(params, key) == IF Has(params, key) THEN params[key] ELSE NoDate

\* The conversion of the thunk's parameters into those of searchItems, and
\* whether it throws.
searchItemsAsyncParams(searchParams, timeZone) ==
    LET p0 == searchParams
        p1 == IF Has(p0, "bounds")
              THEN Without(With(p0, "bbox", boundsToBbox(p0.bounds)), "bounds")
              ELSE p0
        p2 == IF Has(p1, "geoJson") /\ p1.geoJson # NoGeoJson
              THEN LET geometry == geoJsonToGeometry(p1.geoJson)
                   IN Without(IF geometry # NoGeoJson
                              THEN With(p1, "intersects", geometry)
                              ELSE p1,
                              "geoJson")
              ELSE p1
        startDate == DateParam(p2, "startDate")
        endDate   == DateParam(p2, "endDate")
        datetime  == formatDateRange(startDate, endDate, timeZone)
        p3 == IF startDate # NoDate \/ endDate # NoDate
              THEN Without(Without(IF datetime # NoDatetime
                                   THEN With(p2, "datetime", datetime)
                                   ELSE p2,
                                   "startDate"),
                           "endDate")
              ELSE p2
    IN  [thrown |-> (startDate # NoDate \/ endDate # NoDate) /\ datetime = RangeError,
         params |-> p3]

\* The thunk rejecting the search when the geometry is not valid.
searchItemsAsyncRejectingGeometry(searchParams, timeZone) ==
    LET converted == searchItemsAsyncParams(searchParams, timeZone)
    IN  IF converted.thrown
           \/ (/\ Has(searchParams, "geoJson")
               /\ geoJsonToGeometry(searchParams.geoJson) = NoGeoJson)
        THEN NoRequest
        ELSE Issued(searchItems(converted.params))

searchItemsAsync(searchParams, timeZone) ==
    LET converted == searchItemsAsyncParams(searchParams, timeZone)
    IN  IF converted.thrown
        THEN NoRequest
        ELSE Issued(searchItems(converted.params))

\* layer.toGeoJSON() of a drawn rectangle or polygon: a Feature whose
\* geometry is a Polygon of one closed ring.
toGeoJSON(shape) ==
    IF shape = "shape1"
    THEN Feature(Geometry("Polygon", TRUE,
             << << <<0, 0>>, <<1, 0>>, <<1, 1>>, <<0, 1>>, <<0, 0>> >> >>))
    ELSE Feature(Geometry("Polygon", TRUE,
             << << <<0, 0>>, <<1, 0>>, <<1, 1>>, <<0, 0>> >> >>))

\* The parameters handleSearch dispatches: the keys whose value is neither
\* undefined nor null.
handleSearchParams(collections, start, end, drawn) ==
    Object([collections |-> IF Len(collections) > 0 THEN <<collections>> ELSE <<>>,
            startDate   |-> IF Truthy(start) THEN <<NewDate(start)>> ELSE <<>>,
            endDate     |-> IF Truthy(end) THEN <<NewDate(end)>> ELSE <<>>,
            geoJson     |-> IF Truthy(drawn) THEN <<toGeoJSON(drawn)>> ELSE <<>>])

(***************************************************************************)
(* Asset links: formatXYZUrl and formatQGISArcGISUrl                       *)
(* (src/src/components/Catalog.js).                                        *)
(***************************************************************************)
\* A URL is the sequence of its parts: a scheme prefix, names, "/" and the
\* placeholders "{z}", "{x}", "{y}" and "{-y}".
startsWith(url, part) == Len(url) > 0 /\ url[1] = part
endsWith(url, part) == Len(url) > 0 /\ url[Len(url)] = part

\* String.prototype.replace with a string pattern: the first occurrence.
replace(url, part, with) ==
    IF Includes(url, part)
    THEN LET first == CHOOSE i \in DOMAIN url :
                          url[i] = part /\ \A j \in 1..(i - 1) : url[j] # part
         IN [url EXCEPT ![first] = with]
    ELSE url

\* The href after "Fix HTTP to HTTPS if needed", protocol being
\* window.location.protocol.
fixProtocol(assetHref, protocol) ==
    IF startsWith(assetHref, "http://") /\ protocol = "https:"
    THEN replace(assetHref, "http://", "https://")
    ELSE assetHref

formatXYZUrl(assetHref, protocol) ==
    LET xyzUrl == fixProtocol(assetHref, protocol)
    IN  IF ~Includes(xyzUrl, "{z}")
        THEN (IF endsWith(xyzUrl, "/") THEN xyzUrl ELSE Append(xyzUrl, "/"))
                 \o <<"{z}", "/", "{x}", "/", "{y}", ".png">>
        ELSE xyzUrl

formatQGISArcGISUrl(assetHref, protocol) ==
    LET xyzUrl == fixProtocol(assetHref, protocol)
    IN  IF ~Includes(xyzUrl, "{z}")
        THEN (IF endsWith(xyzUrl, "/") THEN xyzUrl ELSE Append(xyzUrl, "/"))
                 \o <<"{z}", "/", "{x}", "/", "{-y}", ".png">>
        ELSE replace(xyzUrl, "{y}", "{-y}")

\* The URL template ItemAssetLayer gives to L.tileLayer for the href of the
\* item's tiles asset.
\* The template of the tile layer with the scheme of the href left as it is.
ItemAssetLayerTileUrlKeepingScheme(href, protocol) ==
    IF ~Includes(href, "{z}")
    THEN (IF endsWith(href, "/") THEN href ELSE Append(href, "/"))
             \o <<"{z}", "/", "{x}", "/", "{y}", ".png">>
    ELSE href

ItemAssetLayerTileUrl(href, protocol) ==
    LET tileUrl == IF startsWith(href, "http://") /\ protocol = "https:"
                   THEN replace(href, "http://", "https://")
                   ELSE href
    IN  IF ~Includes(tileUrl, "{z}")
        THEN (IF endsWith(tileUrl, "/") THEN tileUrl ELSE Append(tileUrl, "/"))
                 \o <<"{z}", "/", "{x}", "/", "{y}", ".png">>
        ELSE tileUrl

\* The hrefs of tiles assets: with a scheme or without, ending in "/" or
\* not, and with the placeholders already or not.
Hrefs ==
    { <<"http://", "host", "/", "tiles">>,
      <<"http://", "host", "/", "tiles", "/">>,
      <<"https://", "host", "/", "tiles">>,
      <<"/", "tiles", "/">>,
      <<"http://", "host", "/", "{z}", "/", "{x}", "/", "{y}", ".png">>,
      <<"https://", "host", "/", "{z}", "/", "{x}", "/", "{y}", ".png">>,
      <<"https://", "host", "/", "{z}", "/", "{x}", "/", "{y}">>,
      <<"https://", "host", "/", "{z}", "/", "{x}", "/", "{-y}", ".png">>,
      <<"https://", "host", "/", "{y}", "/", "{z}", "/", "{x}", "/", "{y}", ".png">> }

Protocols == {"http:", "https:"}

\* A call of a pure function: the function, its argument, and its result
\* once it has returned.
Call(fn, arg) == [fn |-> fn, arg |-> arg, done |-> FALSE, result |-> NoGeoJson]
NoCall == Call("", NoGeoJson)
Return(c, result) == [c EXCEPT !.done = TRUE, !.result = result]

VARIABLES
    store,               \* state.stacCatalog
    searches,            \* searchItemsAsync calls since the oldest pending one, by issuance
    collPending,         \* fetchCollectionsAsync calls in flight
    mounted,             \* the Catalog route is rendered
    selectedCollections, \* Catalog useState
    startDate,
    endDate,
    drawnLayer,
    selectedItem,
    showExtentOnly,
    showAllExtents,
    tilesLoading,
    mapLayers,           \* layers on the Leaflet map
    featureGroup,        \* layers of featureGroupRef.current
    tileLayerRef,        \* ItemAssetLayer refs
    geoJsonLayerRef,
    layersRef,           \* AllItemsExtentLayer's layersRef.current
    tiles,               \* tile loading of the tile layer ItemAssetLayer has on the map
    hoveredItem,         \* Catalog useState
    hoverLayerRef,       \* HoverExtentLayer's layerRef.current
    call,                \* a call of one of the pure functions: its arguments and result
    lastEvent            \* the event handled last, with what it delivered

reduxVars == <<store, searches, collPending>>
hoverVars == <<hoveredItem, hoverLayerRef>>
filterVars == <<selectedCollections, startDate, endDate>>
drawVars == <<drawnLayer, featureGroup>>
assetVars == <<selectedItem, showExtentOnly, tilesLoading, tileLayerRef, geoJsonLayerRef,
               tiles>>
vars == <<store, searches, collPending, mounted, selectedCollections, startDate,
          endDate, drawnLayer, selectedItem, showExtentOnly, showAllExtents,
          tilesLoading, mapLayers, featureGroup, tileLayerRef, geoJsonLayerRef,
          layersRef, tiles, hoveredItem, hoverLayerRef, call, lastEvent>>
catalogVars == <<store, searches, collPending, mounted, selectedCollections,
                 startDate, endDate, drawnLayer, selectedItem, showExtentOnly,
                 showAllExtents, tilesLoading, mapLayers, featureGroup,
                 tileLayerRef, geoJsonLayerRef, layersRef, tiles, hoveredItem,
                 hoverLayerRef, lastEvent>>

\* An event: its type, the response or the error message a settled request
\* delivered, the request a search issued, and the place in searches of the
\* search that settled (0 for the other events).  The types are "init", "mount", "unmount", the thunks' action
\* types, "clear", "itemClick", "display" (a display toggle), "filter" (a
\* collection or date input), "hover" (the pointer entering or leaving an
\* asset entry), the draw events, the tile layer's events
\* "loading", "tileload" and "tileerror" (each with the "load" that follows
\* the last tile of a batch), and "timeout" and "timeout/superseded" (a
\* delayed check of the tile layer on the map, or of a removed one).
NoResponse == [hasFeatures |-> FALSE, features |-> <<>>, next |-> NULL]
Event(type, response, message) ==
    [type |-> type, response |-> response, message |-> message,
     request |-> NoRequest, search |-> 0]

(***************************************************************************)
(* The slice: initial state and reducers.                                  *)
(***************************************************************************)
initialSearchParams ==
    [collections |-> <<>>, startDate |-> NULL, endDate |-> NULL,
     bbox |-> NULL, geometry |-> NULL]

initialState ==
    [collections |-> <<>>,
     items |-> <<>>,
     features |-> <<>>,
     loading |-> FALSE,
     error |-> NULL,
     searchParams |-> initialSearchParams,
     pagination |-> [next |-> NULL, hasMore |-> FALSE],
     drawnGeometry |-> NULL]

setDrawnGeometry(state, payload) == [state EXCEPT !.drawnGeometry = payload]

\* clearDrawnGeometry leaving the stored geometry in place.
clearDrawnGeometryKeeping(state) == state

clearDrawnGeometry(state) == [state EXCEPT !.drawnGeometry = NULL]

setSelectedCollections(state, payload) ==
    [state EXCEPT !.searchParams.collections = payload]

\* clearSearch with the pagination reset forgotten.
clearSearchKeepingPagination(state) ==
    [state EXCEPT !.items = <<>>,
                  !.features = <<>>,
                  !.searchParams = initialSearchParams,
                  !.drawnGeometry = NULL]

clearSearch(state) ==
    [state EXCEPT !.items = <<>>,
                  !.features = <<>>,
                  !.searchParams = initialSearchParams,
                  !.drawnGeometry = NULL,
                  !.pagination = [next |-> NULL, hasMore |-> FALSE]]

fetchCollectionsPending(state) ==
    [state EXCEPT !.loading = TRUE, !.error = NULL]

fetchCollectionsFulfilled(state, payload) ==
    [state EXCEPT !.loading = FALSE, !.collections = payload, !.error = NULL]

fetchCollectionsRejected(state, payload) ==
    [state EXCEPT !.loading = FALSE, !.error = payload, !.collections = <<>>]

\* searchItemsPending keeping the error of an earlier request.
searchItemsPendingKeepingError(state) ==
    [state EXCEPT !.loading = TRUE]

searchItemsPending(state) ==
    [state EXCEPT !.loading = TRUE, !.error = NULL]

\* searchItemsFulfilled reporting an empty result as an error.
searchItemsFulfilledEmptyIsError(state, payload) ==
    LET feats == IF payload.hasFeatures THEN payload.features ELSE <<>>
    IN [state EXCEPT !.loading = FALSE,
                     !.items = feats,
                     !.features = feats,
                     !.pagination = [next |-> Or(payload.next, NULL),
                                     hasMore |-> Truthy(payload.next)],
                     !.error = IF feats = <<>> THEN "No items found" ELSE NULL]

\* searchItemsFulfilled appending the response's items to those in the store.
searchItemsFulfilledAppending(state, payload) ==
    LET feats == IF payload.hasFeatures THEN payload.features ELSE <<>>
    IN [state EXCEPT !.loading = FALSE,
                     !.items = state.items \o feats,
                     !.features = state.features \o feats,
                     !.pagination = [next |-> Or(payload.next, NULL),
                                     hasMore |-> Truthy(payload.next)],
                     !.error = NULL]

searchItemsFulfilled(state, payload) ==
    LET feats == IF payload.hasFeatures THEN payload.features ELSE <<>>
    IN [state EXCEPT !.loading = FALSE,
                     !.items = feats,
                     !.features = feats,
                     !.pagination = [next |-> Or(payload.next, NULL),
                                     hasMore |-> Truthy(payload.next)],
                     !.error = NULL]

\* searchItemsRejected keeping the items of the previous search.
searchItemsRejectedKeepingItems(state, payload) ==
    [state EXCEPT !.loading = FALSE,
                  !.error = payload]

searchItemsRejected(state, payload) ==
    [state EXCEPT !.loading = FALSE,
                  !.error = payload,
                  !.items = <<>>,
                  !.features = <<>>]

\* What the thunks hand to rejectWithValue and return on success.
fetchCollectionsReturn(response) ==
    IF response.hasCollections THEN response.collections ELSE <<>>
fetchCollectionsRejectValue(message) == Or(message, "Failed to fetch collections")
searchItemsRejectValue(message) == Or(message, "Failed to search items")

(***************************************************************************)
(* ItemAssetLayer: the effect that keeps the selected item's overlay.      *)
(* It works on m = [map, tileLayerRef, geoJsonLayerRef, tilesLoading,      *)
(* tiles]: the map's layers, the component's two refs, the flag it reports *)
(* through onLoadingChange, and the tile loading of its tile layer.        *)
(***************************************************************************)
\* The tile loading of a tile layer: the counters of the effect run that
\* built it (loadingTiles, loadedTiles, totalTilesExpected), the tile fetches
\* the layer has issued that neither loaded nor errored (outstanding), the
\* delayed checks its tileload handler has scheduled (timers), and the
\* delayed checks still pending of layers taken off the map (superseded).
NoTiles ==
    [loadingTiles |-> 0, loadedTiles |-> 0, totalTilesExpected |-> 0,
     outstanding |-> 0, timers |-> 0, superseded |-> 0]

\* updateLoadingState ignoring the count of loaded tiles.
updateLoadingStateIgnoringLoaded(t) == t.loadingTiles > 0

\* isLoading of updateLoadingState.
updateLoadingState(t) ==
    t.loadingTiles > 0
        /\ (t.loadedTiles < t.totalTilesExpected \/ t.totalTilesExpected = 0)

\* The counters after the handlers of "loading", "load", "tileload" and
\* "tileerror".
onLoading(t) ==
    [t EXCEPT !.loadingTiles = @ + 1,
              !.totalTilesExpected = Max(@, t.loadingTiles + 1)]
onLoad(t) == [t EXCEPT !.loadedTiles = @ + 1]
onTileLoad(t) == [t EXCEPT !.loadedTiles = @ + 1, !.timers = @ + 1]
onTileError(t) == [t EXCEPT !.loadedTiles = @ + 1]

\* The test of the delayed check the tileload handler schedules.
DelayedCheckClears(t) ==
    t.loadedTiles >= t.totalTilesExpected /\ t.totalTilesExpected > 0

\* map.removeLayer of the tile layer: its fetches are aborted and it fires no
\* more events; the delayed checks it has scheduled stay pending, with the
\* counters as they are now.
RemoveTileLayer(t) ==
    [NoTiles EXCEPT !.superseded =
        Min(MaxSuperseded,
            t.superseded + (IF DelayedCheckClears(t) THEN t.timers ELSE 0))]

\* A new layer object: one that is none of the live ones (a layer that is on
\* no map and in no ref or state any more is no longer told apart).
FreshId(kind, live) ==
    LET used == { l.id : l \in { x \in live : x.kind = kind } }
    IN CHOOSE n \in 1..(Cardinality(used) + 1) : n \notin used

hasLayer(map, layer) == layer # NoLayer /\ layer \in map

\* ItemAssetLayerCleanup with the removal of the tile layer forgotten.
ItemAssetLayerCleanupLeavingTiles(m) ==
    [m EXCEPT !.map = IF hasLayer(m.map, m.geoJsonLayerRef)
                      THEN m.map \ {m.geoJsonLayerRef} ELSE m.map]

\* The function the effect returns, run before its next run and on unmount.
ItemAssetLayerCleanup(m) ==
    LET m1 == IF hasLayer(m.map, m.tileLayerRef)
              THEN [m EXCEPT !.map = @ \ {m.tileLayerRef},
                             !.tiles = RemoveTileLayer(@)]
              ELSE m
        map2 == IF hasLayer(m1.map, m1.geoJsonLayerRef)
                THEN m1.map \ {m1.geoJsonLayerRef} ELSE m1.map
    IN [m1 EXCEPT !.map = map2]

\* The branch for no item or selected = false.
ItemAssetLayerDeselect(m) ==
    LET m1 == IF hasLayer(m.map, m.tileLayerRef)
              THEN [m EXCEPT !.map = @ \ {m.tileLayerRef}, !.tileLayerRef = NoLayer,
                             !.tiles = RemoveTileLayer(@)]
              ELSE m
        m2 == IF hasLayer(m1.map, m1.geoJsonLayerRef)
              THEN [m1 EXCEPT !.map = @ \ {m1.geoJsonLayerRef}, !.geoJsonLayerRef = NoLayer]
              ELSE m1
    IN [m2 EXCEPT !.tilesLoading = FALSE]

\* The tile layer of the item, when showTiles and the item has a tiles asset.
ItemAssetLayerTiles(m, item, showTiles) ==
    LET m1 == IF ~showTiles \/ ~item.tiles
              THEN [m EXCEPT !.tilesLoading = FALSE] ELSE m
    IN IF showTiles /\ item.tiles
       THEN LET map1 == IF hasLayer(m1.map, m1.tileLayerRef)
                        THEN m1.map \ {m1.tileLayerRef} ELSE m1.map
                tiles1 == IF hasLayer(m1.map, m1.tileLayerRef)
                          THEN RemoveTileLayer(m1.tiles) ELSE m1.tiles
                tileLayer == Layer("tile",
                                   FreshId("tile", map1),
                                   item.id)
            IN [m1 EXCEPT !.map = map1 \cup {tileLayer},
                          !.tileLayerRef = tileLayer,
                          !.tiles = tiles1,
                          !.tilesLoading = TRUE]
       ELSE m1

\* ItemAssetLayerGeometry drawing the outline in both display modes.
ItemAssetLayerGeometryAlways(m, item, showGeometry) ==
    IF item.geometry
    THEN LET geoJsonLayer == Layer("outline", FreshId("outline", m.map), item.id)
         IN [m EXCEPT !.map = @ \cup {geoJsonLayer},
                      !.geoJsonLayerRef = geoJsonLayer]
    ELSE m

\* The outline of the item, when showGeometry and the item has a geometry.
ItemAssetLayerGeometry(m, item, showGeometry) ==
    IF item.geometry /\ showGeometry
    THEN LET map1 == IF hasLayer(m.map, m.geoJsonLayerRef)
                     THEN m.map \ {m.geoJsonLayerRef} ELSE m.map
             geoJsonLayer == Layer("outline",
                                   FreshId("outline", map1),
                                   item.id)
         IN [m EXCEPT !.map = map1 \cup {geoJsonLayer},
                      !.geoJsonLayerRef = geoJsonLayer]
    ELSE m

ItemAssetLayerEffect(m, item, selected, showGeometry, showTiles) ==
    IF item = NoItem \/ ~selected
    THEN ItemAssetLayerDeselect(m)
    ELSE ItemAssetLayerGeometry(ItemAssetLayerTiles(m, item, showTiles),
                                item, showGeometry)

\* What a render of Catalog does to the ItemAssetLayer element: it exists
\* while selectedItem is set, with selected = true, showGeometry =
\* showExtentOnly and showTiles = !showExtentOnly; its effect runs again
\* (cleanup first) when item, showGeometry or showTiles changed.
ItemAssetLayerRender(m, oldItem, oldExtentOnly, item, extentOnly) ==
    IF item = NoItem
    THEN IF oldItem = NoItem
         THEN m
         ELSE [ItemAssetLayerCleanup(m) EXCEPT !.tileLayerRef = NoLayer,
                                               !.geoJsonLayerRef = NoLayer]
    ELSE IF oldItem = NoItem
         THEN ItemAssetLayerEffect(m, item, TRUE, extentOnly, ~extentOnly)
         ELSE IF oldItem # item \/ oldExtentOnly # extentOnly
              THEN ItemAssetLayerEffect(ItemAssetLayerCleanup(m), item, TRUE,
                                        extentOnly, ~extentOnly)
              ELSE m

\* The render after an event that left the map as `map` and the selection
\* and display mode as item and extentOnly.
RenderAssets(map, item, extentOnly) ==
    LET m == ItemAssetLayerRender(
                 [map |-> map, tileLayerRef |-> tileLayerRef,
                  geoJsonLayerRef |-> geoJsonLayerRef, tilesLoading |-> tilesLoading,
                  tiles |-> tiles],
                 selectedItem, showExtentOnly, item, extentOnly)
    IN /\ mapLayers' = m.map
       /\ tileLayerRef' = m.tileLayerRef
       /\ geoJsonLayerRef' = m.geoJsonLayerRef
       /\ tilesLoading' = m.tilesLoading
       /\ tiles' = m.tiles

(***************************************************************************)
(* AllItemsExtentLayer: the effect that keeps the outlines of the result   *)
(* items.  It works on e = [map, layersRef].  Its dependency onItemClick   *)
(* is a new function at every render of Catalog, so the effect runs again  *)
(* (cleanup first) at every render; the element exists while items is     *)
(* non-empty.                                                              *)
(***************************************************************************)
\* AllItemsExtentLayerRemove forgetting the layers without taking them off the map.
AllItemsExtentLayerRemoveForgetting(e) == [e EXCEPT !.layersRef = <<>>]

\* "Remove all existing layers", at the start of the effect and as its cleanup.
AllItemsExtentLayerRemove(e) ==
    [e EXCEPT !.map = @ \ { l \in SeqToSet(e.layersRef) : hasLayer(e.map, l) },
              !.layersRef = <<>>]

\* items.forEach from the k-th item on: an outline for each item with geometry.
RECURSIVE AllItemsExtentLayerAdd(_, _, _)
AllItemsExtentLayerAdd(e, items, k) ==
    IF k > Len(items)
    THEN e
    ELSE IF ~items[k].geometry
         THEN AllItemsExtentLayerAdd(e, items, k + 1)
         ELSE LET geoJsonLayer == Layer("extent", FreshId("extent", e.map), items[k].id)
              IN AllItemsExtentLayerAdd(
                     [e EXCEPT !.map = @ \cup {geoJsonLayer},
                               !.layersRef = Append(@, geoJsonLayer)],
                     items, k + 1)

AllItemsExtentLayerEffect(e, items, visible) ==
    LET e1 == AllItemsExtentLayerRemove(e)
    IN IF Len(items) = 0 \/ ~visible
       THEN e1
       ELSE AllItemsExtentLayerAdd(e1, items, 1)

\* What a render of Catalog does to the AllItemsExtentLayer element: the
\* cleanup of the previous run (also the unmount when items became empty),
\* then the effect when the element exists.
AllItemsExtentLayerRender(e, items, visible) ==
    IF Len(items) > 0
    THEN AllItemsExtentLayerEffect(AllItemsExtentLayerRemove(e), items, visible)
    ELSE AllItemsExtentLayerRemove(e)

\* The extent outlines after a render that left the map as `map`.
RenderExtents(map, items, visible) ==
    AllItemsExtentLayerRender([map |-> map, layersRef |-> layersRef], items, visible)

(***************************************************************************)
(* HoverExtentLayer: the effect that keeps the dashed preview of the       *)
(* hovered item.  It works on h = [map, layerRef].                         *)
(***************************************************************************)
\* HoverExtentLayerRemove leaving the preview on the map.
HoverExtentLayerRemoveLeaving(h) == [h EXCEPT !.layerRef = NoLayer]

\* "Remove existing layer", at the start of the effect and as its cleanup.
HoverExtentLayerRemove(h) ==
    IF hasLayer(h.map, h.layerRef)
    THEN [h EXCEPT !.map = @ \ {h.layerRef}, !.layerRef = NoLayer]
    ELSE h

HoverExtentLayerEffect(h, item) ==
    LET h1 == HoverExtentLayerRemove(h)
    IN IF item = NoItem \/ ~item.geometry
       THEN h1
       ELSE LET geoJsonLayer == Layer("preview", FreshId("preview", h1.map), item.id)
            IN [h1 EXCEPT !.map = @ \cup {geoJsonLayer}, !.layerRef = geoJsonLayer]

\* Catalog renders the element while hoveredItem is set and its id is not the
\* selected item's.
HoverExtentLayerShown(hovered, selected) ==
    hovered # NoItem /\ hovered.id # selected.id

\* What a render of Catalog does to the HoverExtentLayer element, the hovered
\* and selected items having been oldHovered and oldSelected before.
HoverExtentLayerRender(h, oldHovered, oldSelected, hovered, selected) ==
    LET was == HoverExtentLayerShown(oldHovered, oldSelected)
        is == HoverExtentLayerShown(hovered, selected)
    IN IF ~is
       THEN IF was
            THEN [HoverExtentLayerRemove(h) EXCEPT !.layerRef = NoLayer]
            ELSE h
       ELSE IF ~was
            THEN HoverExtentLayerEffect(h, hovered)
            ELSE IF hovered # oldHovered
                 THEN HoverExtentLayerEffect(HoverExtentLayerRemove(h), hovered)
                 ELSE h

\* The hover preview after a render that left the map as `map`.
RenderHover(map, hovered, selected) ==
    HoverExtentLayerRender([map |-> map, layerRef |-> hoverLayerRef],
                           hoveredItem, selectedItem, hovered, selected)

\* The effect "Sync local state with Redux", run when searchParams changed.
SyncCollections(state) == state.searchParams.collections
SyncDate(state, field, local) ==
    IF Truthy(state.searchParams[field]) THEN state.searchParams[field] ELSE local

(***************************************************************************)
(* Initial state: the store is built, no route is rendered yet.            *)
(***************************************************************************)
InitCatalog ==
    /\ store = initialState
    /\ searches = <<>>
    /\ collPending = 0
    /\ mounted = FALSE
    /\ selectedCollections = <<>>
    /\ startDate = ""
    /\ endDate = ""
    /\ drawnLayer = NoLayer
    /\ selectedItem = NoItem
    /\ showExtentOnly = FALSE
    /\ showAllExtents = TRUE
    /\ tilesLoading = FALSE
    /\ mapLayers = {}
    /\ featureGroup = {}
    /\ tileLayerRef = NoLayer
    /\ geoJsonLayerRef = NoLayer
    /\ layersRef = <<>>
    /\ tiles = NoTiles
    /\ hoveredItem = NoItem
    /\ hoverLayerRef = NoLayer
    /\ lastEvent = Event("init", NoResponse, NULL)

Init ==
    /\ InitCatalog
    /\ call = NoCall

(***************************************************************************)
(* Routing: the Catalog element is mounted at "/" and unmounted when the   *)
(* operator leaves for "/how-to-use"; the store outlives it.               *)
(***************************************************************************)
MountCatalog ==
    /\ ~mounted
    /\ collPending < MaxCollPending
    /\ mounted' = TRUE
    /\ store' = fetchCollectionsPending(store)
    /\ collPending' = collPending + 1
    /\ selectedCollections' = SyncCollections(store)
    /\ startDate' = SyncDate(store, "startDate", "")
    /\ endDate' = SyncDate(store, "endDate", "")
    /\ LET e == RenderExtents(mapLayers, store.items, showAllExtents)
       IN mapLayers' = e.map /\ layersRef' = e.layersRef
    /\ UNCHANGED <<searches, drawnLayer, selectedItem, showExtentOnly, showAllExtents,
                   tilesLoading, featureGroup, tileLayerRef, geoJsonLayerRef, tiles>>
    /\ UNCHANGED hoverVars
    /\ UNCHANGED call
    /\ lastEvent' = Event("mount", NoResponse, NULL)

UnmountCatalog ==
    /\ mounted
    /\ mounted' = FALSE
    /\ selectedCollections' = <<>>
    /\ startDate' = ""
    /\ endDate' = ""
    /\ drawnLayer' = NoLayer
    /\ selectedItem' = NoItem
    /\ showExtentOnly' = FALSE
    /\ showAllExtents' = TRUE
    /\ tilesLoading' = FALSE
    /\ mapLayers' = {}
    /\ featureGroup' = {}
    /\ tileLayerRef' = NoLayer
    /\ geoJsonLayerRef' = NoLayer
    /\ layersRef' = <<>>
    /\ tiles' = NoTiles
    /\ hoveredItem' = NoItem
    /\ hoverLayerRef' = NoLayer
    /\ UNCHANGED reduxVars
    /\ UNCHANGED call
    /\ lastEvent' = Event("unmount", NoResponse, NULL)

(***************************************************************************)
(* The thunks.  searches holds the state of the promise of each            *)
(* searchItemsAsync call ("pending", "fulfilled" or "rejected") in the     *)
(* order the calls were dispatched, from the oldest call still pending on. *)
(***************************************************************************)
\* Settled leaving the promise pending.
SettledNever(s, i, status) == s

Settled(s, i, status) ==
    LET t == [s EXCEPT ![i] = status]
        pending == { k \in DOMAIN t : t[k] = "pending" }
    IN IF pending = {}
       THEN <<>>
       ELSE SubSeq(t, CHOOSE k \in pending : \A j \in pending : k <= j, Len(t))

\* A response object that is not the one an item held by the component is
\* part of (the items of the store are replaced by the response's).
FreshRid ==
    LET used == { it.rid : it \in {selectedItem, hoveredItem} }
    IN CHOOSE n \in 1..(Cardinality(used) + 1) : n \notin used

FetchCollectionsFulfilled(response) ==
    /\ collPending > 0
    /\ collPending' = collPending - 1
    /\ store' = fetchCollectionsFulfilled(store, fetchCollectionsReturn(response))
    /\ UNCHANGED <<searches, mounted, filterVars, drawVars, assetVars,
                   showAllExtents, mapLayers, layersRef>>
    /\ UNCHANGED hoverVars
    /\ UNCHANGED call
    /\ lastEvent' = Event("fetchCollections/fulfilled", NoResponse, NULL)

FetchCollectionsRejected(message) ==
    /\ collPending > 0
    /\ collPending' = collPending - 1
    /\ store' = fetchCollectionsRejected(store, fetchCollectionsRejectValue(message))
    /\ UNCHANGED <<searches, mounted, filterVars, drawVars, assetVars,
                   showAllExtents, mapLayers, layersRef>>
    /\ UNCHANGED hoverVars
    /\ UNCHANGED call
    /\ lastEvent' = Event("fetchCollections/rejected", NoResponse, message)

\* The Search button, disabled while loading.
HandleSearch ==
    /\ mounted
    /\ ~store.loading
    /\ Len(searches) < MaxSearches
    /\ searches' = Append(searches, "pending")
    /\ store' = searchItemsPending(store)
    /\ UNCHANGED <<collPending, mounted, filterVars, drawVars, assetVars,
                   showAllExtents, mapLayers, layersRef>>
    /\ UNCHANGED hoverVars
    /\ UNCHANGED call
    /\ \E timeZone \in TimeZones :
          lastEvent' =
              [Event("searchItems/pending", NoResponse, NULL) EXCEPT
                  !.request = searchItemsAsync(
                      handleSearchParams(selectedCollections, startDate, endDate,
                                         store.drawnGeometry),
                      timeZone)]

SearchItemsFulfilled(i, response) ==
    /\ searches[i] = "pending"
    /\ searches' = Settled(searches, i, "fulfilled")
    /\ store' = searchItemsFulfilled(store, response)
    /\ LET e == IF mounted
                THEN RenderExtents(mapLayers, store'.items, showAllExtents)
                ELSE [map |-> mapLayers, layersRef |-> layersRef]
       IN mapLayers' = e.map /\ layersRef' = e.layersRef
    /\ UNCHANGED <<collPending, mounted, filterVars, drawVars, assetVars,
                   showAllExtents>>
    /\ UNCHANGED hoverVars
    /\ UNCHANGED call
    /\ lastEvent' = [Event("searchItems/fulfilled", response, NULL) EXCEPT !.search = i]

SearchItemsRejected(i, message) ==
    /\ searches[i] = "pending"
    /\ searches' = Settled(searches, i, "rejected")
    /\ store' = searchItemsRejected(store, searchItemsRejectValue(message))
    /\ LET e == IF mounted
                THEN RenderExtents(mapLayers, store'.items, showAllExtents)
                ELSE [map |-> mapLayers, layersRef |-> layersRef]
       IN mapLayers' = e.map /\ layersRef' = e.layersRef
    /\ UNCHANGED <<collPending, mounted, filterVars, drawVars, assetVars,
                   showAllExtents>>
    /\ UNCHANGED hoverVars
    /\ UNCHANGED call
    /\ lastEvent' = [Event("searchItems/rejected", NoResponse, message) EXCEPT !.search = i]

(***************************************************************************)
(* The Catalog component's event handlers.                                 *)
(***************************************************************************)
\* The Clear button of the filter actions.
HandleClear ==
    /\ mounted
    /\ store' = clearDrawnGeometry(clearSearch(store))
    /\ selectedCollections' = SyncCollections(store')
    /\ startDate' = SyncDate(store', "startDate", "")
    /\ endDate' = SyncDate(store', "endDate", "")
    /\ selectedItem' = NoItem
    /\ drawnLayer' = NoLayer
    /\ featureGroup' = IF drawnLayer # NoLayer
                       THEN featureGroup \ {drawnLayer} ELSE featureGroup
    /\ LET e == RenderExtents(IF drawnLayer # NoLayer
                               THEN mapLayers \ {drawnLayer} ELSE mapLayers,
                               store'.items, showAllExtents)
           h == RenderHover(e.map, hoveredItem, NoItem)
       IN /\ layersRef' = e.layersRef
          /\ hoverLayerRef' = h.layerRef
          /\ RenderAssets(h.map, NoItem, showExtentOnly)
    /\ UNCHANGED hoveredItem
    /\ UNCHANGED <<searches, collPending, mounted, showExtentOnly, showAllExtents>>
    /\ UNCHANGED call
    /\ lastEvent' = Event("clear", NoResponse, NULL)

\* A click on an item card (shown when not loading) or on an item's extent
\* outline or its popup button on the map (shown while items is non-empty,
\* showAllExtents is set and the item has a geometry).
HandleItemClick(item) ==
    /\ mounted
    /\ Includes(store.items, item)
    /\ ~store.loading \/ (showAllExtents /\ item.geometry)
    /\ selectedItem' = item
    /\ LET e == RenderExtents(mapLayers, store.items, showAllExtents)
           h == RenderHover(e.map, hoveredItem, item)
       IN /\ layersRef' = e.layersRef
          /\ hoverLayerRef' = h.layerRef
          /\ RenderAssets(h.map, item, showExtentOnly)
    /\ UNCHANGED hoveredItem
    /\ UNCHANGED <<reduxVars, mounted, filterVars, drawVars, showExtentOnly,
                   showAllExtents>>
    /\ UNCHANGED call
    /\ lastEvent' = Event("itemClick", NoResponse, NULL)

\* The "Show extent only (no imagery)" checkbox.
ToggleExtentOnly ==
    /\ mounted
    /\ showExtentOnly' = ~showExtentOnly
    /\ LET e == RenderExtents(mapLayers, store.items, showAllExtents)
       IN layersRef' = e.layersRef /\ RenderAssets(e.map, selectedItem, ~showExtentOnly)
    /\ UNCHANGED <<reduxVars, mounted, filterVars, drawVars, selectedItem,
                   showAllExtents>>
    /\ UNCHANGED hoverVars
    /\ UNCHANGED call
    /\ lastEvent' = Event("display", NoResponse, NULL)

\* The Hide Extents / Show Extents button, rendered while items is non-empty.
ToggleAllExtents ==
    /\ mounted
    /\ Len(store.items) > 0
    /\ showAllExtents' = ~showAllExtents
    /\ LET e == RenderExtents(mapLayers, store.items, ~showAllExtents)
       IN mapLayers' = e.map /\ layersRef' = e.layersRef
    /\ UNCHANGED <<reduxVars, mounted, filterVars, drawVars, assetVars>>
    /\ UNCHANGED hoverVars
    /\ UNCHANGED call
    /\ lastEvent' = Event("display", NoResponse, NULL)

\* A collection checkbox, rendered unless loading with no collections.
HandleCollectionChange(collectionId) ==
    LET checked == ~Includes(selectedCollections, collectionId)
        updated == IF checked
                   THEN IF ~Includes(selectedCollections, collectionId)
                        THEN Append(selectedCollections, collectionId)
                        ELSE selectedCollections
                   ELSE Filter(selectedCollections, collectionId)
    IN /\ mounted
       /\ Includes(store.collections, collectionId)
       /\ store' = setSelectedCollections(store, updated)
       /\ selectedCollections' = SyncCollections(store')
       /\ startDate' = SyncDate(store', "startDate", startDate)
       /\ endDate' = SyncDate(store', "endDate", endDate)
       /\ UNCHANGED <<searches, collPending, mounted, drawVars, assetVars,
                      showAllExtents, mapLayers, layersRef>>
       /\ UNCHANGED hoverVars
       /\ UNCHANGED call
       /\ lastEvent' = Event("filter", NoResponse, NULL)

HandleSelectAllCollections ==
    /\ mounted
    /\ ~store.loading
    /\ Len(store.collections) > 0
    /\ store' = setSelectedCollections(store, store.collections)
    /\ selectedCollections' = SyncCollections(store')
    /\ startDate' = SyncDate(store', "startDate", startDate)
    /\ endDate' = SyncDate(store', "endDate", endDate)
    /\ UNCHANGED <<searches, collPending, mounted, drawVars, assetVars,
                   showAllExtents, mapLayers, layersRef>>
    /\ UNCHANGED hoverVars
    /\ UNCHANGED call
    /\ lastEvent' = Event("filter", NoResponse, NULL)

HandleDeselectAllCollections ==
    /\ mounted
    /\ ~store.loading
    /\ Len(selectedCollections) > 0
    /\ store' = setSelectedCollections(store, <<>>)
    /\ selectedCollections' = SyncCollections(store')
    /\ startDate' = SyncDate(store', "startDate", startDate)
    /\ endDate' = SyncDate(store', "endDate", endDate)
    /\ UNCHANGED <<searches, collPending, mounted, drawVars, assetVars,
                   showAllExtents, mapLayers, layersRef>>
    /\ UNCHANGED hoverVars
    /\ UNCHANGED call
    /\ lastEvent' = Event("filter", NoResponse, NULL)

\* The From and To date inputs.
SetStartDate(value) ==
    /\ mounted
    /\ value # startDate
    /\ startDate' = value
    /\ UNCHANGED <<reduxVars, mounted, selectedCollections, endDate, drawVars,
                   assetVars, showAllExtents, mapLayers, layersRef>>
    /\ UNCHANGED hoverVars
    /\ UNCHANGED call
    /\ lastEvent' = Event("filter", NoResponse, NULL)

SetEndDate(value) ==
    /\ mounted
    /\ value # endDate
    /\ endDate' = value
    /\ UNCHANGED <<reduxVars, mounted, selectedCollections, startDate, drawVars,
                   assetVars, showAllExtents, mapLayers, layersRef>>
    /\ UNCHANGED hoverVars
    /\ UNCHANGED call
    /\ lastEvent' = Event("filter", NoResponse, NULL)

\* The list entry of an asset of the item is rendered: the results list is
\* shown and has the item, and the item has an asset with role tiles or data.
AssetEntryRendered(item) ==
    /\ ~store.loading
    /\ \E k \in DOMAIN store.items : store.items[k].id = item.id /\ store.items[k].tiles

\* The pointer enters the list entry of an asset of the item.
MouseEnterAsset(item) ==
    /\ mounted
    /\ Includes(store.items, item)
    /\ AssetEntryRendered(item)
    /\ hoveredItem = NoItem \/ ~AssetEntryRendered(hoveredItem)
    /\ hoveredItem' = item
    /\ LET h == RenderHover(mapLayers, item, selectedItem)
       IN mapLayers' = h.map /\ hoverLayerRef' = h.layerRef
    /\ UNCHANGED <<reduxVars, mounted, filterVars, drawVars, assetVars,
                   showAllExtents, layersRef>>
    /\ UNCHANGED call
    /\ lastEvent' = Event("hover", NoResponse, NULL)

\* The pointer leaves the list entry it was in.
MouseLeaveAsset ==
    /\ mounted
    /\ hoveredItem # NoItem
    /\ AssetEntryRendered(hoveredItem)
    /\ hoveredItem' = NoItem
    /\ LET h == RenderHover(mapLayers, NoItem, selectedItem)
       IN mapLayers' = h.map /\ hoverLayerRef' = h.layerRef
    /\ UNCHANGED <<reduxVars, mounted, filterVars, drawVars, assetVars,
                   showAllExtents, layersRef>>
    /\ UNCHANGED call
    /\ lastEvent' = Event("hover", NoResponse, NULL)

(***************************************************************************)
(* The draw control's events.  featureGroupRef.current is on the map, so   *)
(* a layer added to it is added to the map and one removed from it is      *)
(* removed from the map.                                                   *)
(***************************************************************************)
\* HandleDrawCreated without the removal of the previous shape.
HandleDrawCreatedKeepingPrevious(shape) ==
    LET layer == Layer("aoi",
                       FreshId("aoi", mapLayers \cup featureGroup \cup {drawnLayer}),
                       "")
    IN /\ mounted
       /\ store' = setDrawnGeometry(store, shape)
       /\ featureGroup' = featureGroup \cup {layer}
       /\ mapLayers' = mapLayers \cup {layer}
       /\ drawnLayer' = layer
       /\ UNCHANGED <<searches, collPending, mounted, filterVars, assetVars,
                      showAllExtents, layersRef>>
       /\ UNCHANGED hoverVars
       /\ UNCHANGED call
       /\ lastEvent' = Event("draw:created", NoResponse, NULL)

\* draw:created, DrawControl's handler and then Catalog's.
HandleDrawCreated(shape) ==
    LET layer == Layer("aoi",
                       FreshId("aoi", mapLayers \cup featureGroup \cup {drawnLayer}),
                       "")
        retire == drawnLayer # NoLayer /\ drawnLayer # layer
    IN /\ mounted
       /\ store' = setDrawnGeometry(store, shape)
       /\ featureGroup' = (featureGroup \cup {layer})
                              \ (IF retire THEN {drawnLayer} ELSE {})
       /\ mapLayers' = (mapLayers \cup {layer})
                           \ (IF retire THEN {drawnLayer} ELSE {})
       /\ drawnLayer' = layer
       /\ UNCHANGED <<searches, collPending, mounted, filterVars, assetVars,
                      showAllExtents, layersRef>>
       /\ UNCHANGED hoverVars
       /\ UNCHANGED call
       /\ lastEvent' = Event("draw:created", NoResponse, NULL)

\* draw:edited on the layers of the feature group.
HandleDrawEdited(shape) ==
    /\ mounted
    /\ featureGroup # {}
    /\ store' = setDrawnGeometry(store, shape)
    /\ UNCHANGED <<searches, collPending, mounted, filterVars, drawVars, assetVars,
                   showAllExtents, mapLayers, layersRef>>
    /\ UNCHANGED hoverVars
    /\ UNCHANGED call
    /\ lastEvent' = Event("draw:edited", NoResponse, NULL)

\* draw:deleted: the control has taken `removed` out of the feature group.
HandleDrawDeleted(removed) ==
    /\ mounted
    /\ removed # {}
    /\ removed \subseteq featureGroup
    /\ store' = clearDrawnGeometry(store)
    /\ featureGroup' = (featureGroup \ removed)
                           \ (IF drawnLayer # NoLayer THEN {drawnLayer} ELSE {})
    /\ mapLayers' = (mapLayers \ removed)
                        \ (IF drawnLayer # NoLayer THEN {drawnLayer} ELSE {})
    /\ drawnLayer' = NoLayer
    /\ UNCHANGED <<searches, collPending, mounted, filterVars, assetVars,
                   showAllExtents, layersRef>>
    /\ UNCHANGED hoverVars
    /\ UNCHANGED call
    /\ lastEvent' = Event("draw:deleted", NoResponse, NULL)

(***************************************************************************)
(* The events of the tile layer ItemAssetLayer has on the map, and the     *)
(* delayed checks.  A tile layer fires "loading" when it starts to fetch   *)
(* tiles with none outstanding, "tileload" or "tileerror" for each tile,   *)
(* and "load" right after the event of the last outstanding tile; a layer  *)
(* whose zoom range excludes the view fetches nothing and fires nothing.   *)
(***************************************************************************)
tileVars == <<reduxVars, mounted, filterVars, drawVars, selectedItem, showExtentOnly,
              showAllExtents, mapLayers, tileLayerRef, geoJsonLayerRef, layersRef>>

\* "loading": the layer starts to fetch n tiles.
TileLoading(n) ==
    /\ mounted
    /\ hasLayer(mapLayers, tileLayerRef)
    /\ tiles.outstanding = 0
    /\ tiles.loadingTiles < MaxBatches
    /\ LET t == onLoading(tiles)
       IN /\ tiles' = [t EXCEPT !.outstanding = n]
          /\ tilesLoading' = updateLoadingState(t)
    /\ UNCHANGED tileVars
    /\ UNCHANGED hoverVars
    /\ UNCHANGED call
    /\ lastEvent' = Event("loading", NoResponse, NULL)

\* "tileload", and "load" when it was the last outstanding tile.
TileLoad ==
    /\ mounted
    /\ hasLayer(mapLayers, tileLayerRef)
    /\ tiles.outstanding > 0
    /\ LET t1 == [onTileLoad(tiles) EXCEPT !.outstanding = @ - 1]
           t2 == IF t1.outstanding = 0 THEN onLoad(t1) ELSE t1
       IN /\ tiles' = t2
          /\ tilesLoading' = IF t1.outstanding = 0
                             THEN updateLoadingState(t2) ELSE tilesLoading
    /\ UNCHANGED tileVars
    /\ UNCHANGED hoverVars
    /\ UNCHANGED call
    /\ lastEvent' = Event("tileload", NoResponse, NULL)

\* "tileerror", and "load" when it was the last outstanding tile.
TileError ==
    /\ mounted
    /\ hasLayer(mapLayers, tileLayerRef)
    /\ tiles.outstanding > 0
    /\ LET t1 == [onTileError(tiles) EXCEPT !.outstanding = @ - 1]
           t2 == IF t1.outstanding = 0 THEN onLoad(t1) ELSE t1
       IN /\ tiles' = t2
          /\ tilesLoading' = updateLoadingState(t2)
    /\ UNCHANGED tileVars
    /\ UNCHANGED hoverVars
    /\ UNCHANGED call
    /\ lastEvent' = Event("tileerror", NoResponse, NULL)

\* The delayed check of a tileload of the layer on the map.
TileLoadTimeout ==
    /\ mounted
    /\ tiles.timers > 0
    /\ tiles' = [tiles EXCEPT !.timers = @ - 1]
    /\ tilesLoading' = IF DelayedCheckClears(tiles) THEN FALSE ELSE tilesLoading
    /\ UNCHANGED tileVars
    /\ UNCHANGED hoverVars
    /\ UNCHANGED call
    /\ lastEvent' = Event("timeout", NoResponse, NULL)

\* The delayed check of a tileload of a layer that was taken off the map.
SupersededTileLoadTimeout ==
    /\ mounted
    /\ tiles.superseded > 0
    /\ tiles' = [tiles EXCEPT !.superseded = @ - 1]
    /\ tilesLoading' = FALSE
    /\ UNCHANGED tileVars
    /\ UNCHANGED hoverVars
    /\ UNCHANGED call
    /\ lastEvent' = Event("timeout/superseded", NoResponse, NULL)

(***************************************************************************)
(* The specifications.                                                     *)
(*                                                                         *)
(* Spec is the search and overlay behaviour across visits of the Catalog   *)
(* route: requests, their settlements in any order, selection, display     *)
(* mode, Clear, and leaving and re-entering the route.  The filter inputs  *)
(* stay as they are; no action of Spec reads what they write.              *)
(*                                                                         *)
(* SpecFilter is the filter panel during one visit of the route: the       *)
(* collection and date inputs, the draw control, Search and Clear, the     *)
(* requests and the selection of a result, in the initial display mode.    *)
(*                                                                         *)
(* SpecHover is the map overlays during one visit: successful requests,    *)
(* selection, Clear, both display toggles, and the pointer entering and    *)
(* leaving the asset entries of the results list.                          *)
(*                                                                         *)
(* SpecTiles is the tile loading of the selected item's imagery during one *)
(* visit: successful requests, selection, Clear, the display mode, and the *)
(* tile layer's events and delayed checks.  SpecTilesFair adds that a tile *)
(* fetch that was issued loads or errors and that a scheduled delayed      *)
(* check runs; nothing obliges a layer to start fetching.                  *)
(***************************************************************************)
Requests ==
    \/ \E response \in CollectionPayloads : FetchCollectionsFulfilled(response)
    \/ \E message \in ServerMessages : FetchCollectionsRejected(message)
    \/ HandleSearch
    \/ \E i \in DOMAIN searches :
           \E response \in SearchPayloads(FreshRid) : SearchItemsFulfilled(i, response)
    \/ \E i \in DOMAIN searches :
           \E message \in ServerMessages : SearchItemsRejected(i, message)

Selection ==
    \/ HandleClear
    \/ \E item \in SeqToSet(store.items) : HandleItemClick(item)

DisplayToggles ==
    \/ ToggleExtentOnly
    \/ ToggleAllExtents

FilterInputs ==
    \/ \E c \in SeqToSet(store.collections) : HandleCollectionChange(c)
    \/ HandleSelectAllCollections
    \/ HandleDeselectAllCollections
    \/ \E value \in DateInputs : SetStartDate(value)
    \/ \E value \in DateInputs : SetEndDate(value)
    \/ \E shape \in DrawnShapes : HandleDrawCreated(shape)
    \/ \E shape \in DrawnShapes : HandleDrawEdited(shape)
    \/ \E removed \in SUBSET featureGroup : HandleDrawDeleted(removed)

Next ==
    \/ MountCatalog
    \/ UnmountCatalog
    \/ Requests
    \/ Selection
    \/ DisplayToggles

NextFilter ==
    \/ MountCatalog
    \/ Requests
    \/ Selection
    \/ FilterInputs

Hover ==
    \/ \E item \in SeqToSet(store.items) : MouseEnterAsset(item)
    \/ MouseLeaveAsset

NextHover ==
    \/ MountCatalog
    \/ \E response \in CollectionPayloads : FetchCollectionsFulfilled(response)
    \/ HandleSearch
    \/ \E i \in DOMAIN searches :
           \E response \in SearchPayloads(FreshRid) : SearchItemsFulfilled(i, response)
    \/ Selection
    \/ DisplayToggles
    \/ Hover

TileFetches ==
    \/ TileLoad
    \/ TileError

Timeouts ==
    \/ TileLoadTimeout
    \/ SupersededTileLoadTimeout

NextTiles ==
    \/ MountCatalog
    \/ \E response \in CollectionPayloads : FetchCollectionsFulfilled(response)
    \/ HandleSearch
    \/ \E i \in DOMAIN searches :
           \E response \in SearchPayloads(FreshRid) : SearchItemsFulfilled(i, response)
    \/ Selection
    \/ ToggleExtentOnly
    \/ \E n \in 1..MaxTiles : TileLoading(n)
    \/ TileFetches
    \/ Timeouts

(***************************************************************************)
(* Calls of the pure functions of the services and of the asset links, on  *)
(* arguments drawn from bounded sets.                                      *)
(***************************************************************************)
GeoJsonCalls == { Call("geoJsonToGeometry", [geoJson |-> g]) : g \in GeoJsonInputs }

\* The values of a date input: empty or a calendar date.
CalendarDates == {"", "2020-01-01", "2020-01-02", "2020-12-30", "2020-12-31"}

DateCalls ==
    { Call("formatDateRange", [startDate |-> s, endDate |-> e, timeZone |-> tz]) :
        s \in CalendarDates, e \in CalendarDates, tz \in TimeZones }

\* The parameter objects given to the searchItems thunk: each key present
\* or not, "query" being a key the search does not know.
SearchParamsInputs ==
    { Object([collections |-> c, startDate |-> s, endDate |-> e, geoJson |-> g,
              bounds |-> b, limit |-> l, next |-> n, query |-> q]) :
        c \in Optional({<<>>, <<"c1">>}),
        s \in Optional({NewDate("2020-01-01"), InvalidDate}),
        e \in Optional({NewDate("2020-12-31")}),
        g \in Optional({NoGeoJson,
                        Feature(NoGeoJson),
                        Feature(Geometry("Polygon", TRUE,
                                    << << <<0, 0>>, <<1, 0>>, <<1, 1>> >> >>)),
                        Geometry("Polygon", TRUE,
                                 << << <<0, 0>>, <<1, 0>>, <<1, 1>> >> >>),
                        Geometry("GeometryCollection", FALSE, <<>>)}),
        b \in Optional({Bounds(0, 0, 1, 1)}),
        l \in Optional({0, 5}),
        n \in Optional({"", "token"}),
        q \in Optional({"q"}) }

SearchCalls ==
    { Call("searchItemsAsync", [searchParams |-> p, timeZone |-> tz]) :
        p \in SearchParamsInputs, tz \in TimeZones }

\* The templates of one href are derived together: that of the item's tile
\* layer and the two of the asset's copy buttons.
UrlCalls ==
    { Call("formatUrls", [assetHref |-> h, protocol |-> p]) :
        h \in Hrefs, p \in Protocols }

CallInputs == GeoJsonCalls \cup DateCalls \cup SearchCalls \cup UrlCalls

InitCalls ==
    /\ InitCatalog
    /\ call \in CallInputs

DateInputValue(value) == IF Truthy(value) THEN NewDate(value) ELSE NoDate

ApplyGeoJsonToGeometry ==
    /\ call.fn = "geoJsonToGeometry"
    /\ ~call.done
    /\ call' = Return(call, geoJsonToGeometry(call.arg.geoJson))
    /\ UNCHANGED catalogVars

ApplyFormatDateRange ==
    /\ call.fn = "formatDateRange"
    /\ ~call.done
    /\ call' = Return(call, formatDateRange(DateInputValue(call.arg.startDate),
                                            DateInputValue(call.arg.endDate),
                                            call.arg.timeZone))
    /\ UNCHANGED catalogVars

ApplySearchItemsAsync ==
    /\ call.fn = "searchItemsAsync"
    /\ ~call.done
    /\ call' = Return(call, searchItemsAsync(call.arg.searchParams, call.arg.timeZone))
    /\ UNCHANGED catalogVars

ApplyFormatUrls ==
    /\ call.fn = "formatUrls"
    /\ ~call.done
    /\ call' = Return(call,
                      [tileUrl  |-> ItemAssetLayerTileUrl(call.arg.assetHref,
                                                          call.arg.protocol),
                       viewer   |-> formatXYZUrl(call.arg.assetHref, call.arg.protocol),
                       exchange |-> formatQGISArcGISUrl(call.arg.assetHref,
                                                        call.arg.protocol)])
    /\ UNCHANGED catalogVars

NextCalls ==
    \/ ApplyFormatUrls
    \/ ApplyGeoJsonToGeometry
    \/ ApplyFormatDateRange
    \/ ApplySearchItemsAsync

Spec == Init /\ [][Next]_vars

SpecFilter == Init /\ [][NextFilter]_vars

SpecHover == Init /\ [][NextHover]_vars

SpecTiles == Init /\ [][NextTiles]_vars

\* The thunks alone: the transport answers every request, each search call
\* and the collection-list fetches.
NextRequests ==
    \/ MountCatalog
    \/ UnmountCatalog
    \/ Requests

SearchReturns(i) ==
    \/ \E response \in SearchPayloads(FreshRid) : SearchItemsFulfilled(i, response)
    \/ \E message \in ServerMessages : SearchItemsRejected(i, message)

FetchCollectionsReturns ==
    \/ \E response \in CollectionPayloads : FetchCollectionsFulfilled(response)
    \/ \E message \in ServerMessages : FetchCollectionsRejected(message)

SpecRequests == Init /\ [][NextRequests]_vars

SpecRequestsFair ==
    /\ SpecRequests
    /\ WF_vars(FetchCollectionsReturns)
    /\ \A i \in 1..MaxSearches : WF_vars(i \in DOMAIN searches /\ SearchReturns(i))

SpecCalls == InitCalls /\ [][NextCalls]_vars

SpecTilesFair == SpecTiles /\ WF_vars(TileFetches) /\ WF_vars(Timeouts)

(***************************************************************************)
(* Properties.                                                             *)
(***************************************************************************)
\* What a search leaves for the operator: the items, the continuation token,
\* the status the flags show, and the error message.
SearchStatus ==
    IF store.loading THEN "Loading"
    ELSE IF store.error # NULL THEN "Failed" ELSE "Ready"
SearchResultState ==
    <<store.items, store.pagination.next, SearchStatus, store.error>>

ItemIds == { store.items[k].id : k \in DOMAIN store.items }

\* The overlays ItemAssetLayer puts on the map for the selected item.
ActiveOverlays == { l \in mapLayers : l.kind \in {"tile", "outline"} }

\* C1: when a search settles after a search issued later than it has already
\* settled, the result state (items, continuation token, error) stays the one
\* the later search produced.
C1_LateResponseOfEarlierSearchIsDiscarded ==
    [][\A i \in DOMAIN searches :
           ( /\ searches[i] = "pending"
             /\ \E j \in DOMAIN searches : j > i /\ searches[j] # "pending"
             /\ \E status \in {"fulfilled", "rejected"} :
                    searches' = Settled(searches, i, status) )
           => /\ store'.items = store.items
              /\ store'.pagination.next = store.pagination.next
              /\ store'.error = store.error]_vars

\* C2: right after a search was rejected, loading is false, error holds a
\* non-empty message, and items and features are empty.
C2_FailedSearchRecordsErrorAndEmptiesItems ==
    lastEvent.type = "searchItems/rejected"
        => /\ store.loading = FALSE
           /\ store.error \notin {NULL, ""}
           /\ store.items = <<>>
           /\ store.features = <<>>

\* A search was rejected with no message of the server while an item of an
\* earlier successful search was selected.
C2_Witness ==
    /\ lastEvent.type = "searchItems/rejected"
    /\ lastEvent.message = NULL
    /\ selectedItem # NoItem
    /\ store.items = <<>>
    /\ store.error = "Failed to search items"

\* C3: right after a search was fulfilled with a response of zero items, the
\* state is Ready (loading false, error null) with an empty item list.
C3_EmptyResponseIsReady ==
    (lastEvent.type = "searchItems/fulfilled" /\ lastEvent.response.features = <<>>)
        => /\ store.loading = FALSE
           /\ store.error = NULL
           /\ store.items = <<>>

\* A search was fulfilled with an empty feature list while an item of an
\* earlier result was selected.
C3_Witness ==
    /\ lastEvent.type = "searchItems/fulfilled"
    /\ lastEvent.response.hasFeatures
    /\ lastEvent.response.features = <<>>
    /\ selectedItem # NoItem
    /\ SearchStatus = "Ready"
    /\ store.items = <<>>

\* C4: right after a search was fulfilled, items is exactly the response's
\* feature list, the continuation token is the response's token or none, and
\* the state is Ready.
C4_SuccessReplacesItemsWholesale ==
    lastEvent.type = "searchItems/fulfilled"
        => /\ store.items = lastEvent.response.features
           /\ store.pagination.next = lastEvent.response.next
           /\ store.pagination.hasMore = (lastEvent.response.next # NULL)
           /\ store.loading = FALSE
           /\ store.error = NULL

\* A search was fulfilled with items and a token while an item of the previous
\* result, which the response does not hold, was selected.
C4_Witness ==
    /\ lastEvent.type = "searchItems/fulfilled"
    /\ lastEvent.response.features # <<>>
    /\ lastEvent.response.next = "tok1"
    /\ selectedItem # NoItem
    /\ selectedItem.id \notin ItemIds
    /\ store.items = lastEvent.response.features
    /\ store.pagination.next = "tok1"

\* C5: the rejection of a collection-list fetch, while a search is in flight
\* or the items of a successful search are in the store, leaves the items, the
\* continuation token, the search status and the error message as they were.
C5_CollectionsFailureLeavesSearchResult ==
    [][( /\ lastEvent'.type = "fetchCollections/rejected"
         /\ \/ \E i \in DOMAIN searches : searches[i] = "pending"
            \/ store.items # <<>> )
       => SearchResultState' = SearchResultState]_vars

\* C6: right after Clear, the selected collections, the start and end date, the
\* drawn AOI geometry, the result list, the continuation token and the
\* selected item are at their initial values.
C6_ClearResetsFilterResultsAndSelection ==
    lastEvent.type = "clear"
        => /\ selectedCollections = <<>>
           /\ store.searchParams = initialSearchParams
           /\ startDate = ""
           /\ endDate = ""
           /\ store.drawnGeometry = NULL
           /\ drawnLayer = NoLayer
           /\ store.items = <<>>
           /\ store.features = <<>>
           /\ store.pagination = initialState.pagination
           /\ selectedItem = NoItem

\* Clear has run while a search was in flight and the collection list was
\* loaded.
C6_Witness ==
    /\ lastEvent.type = "clear"
    /\ \E i \in DOMAIN searches : searches[i] = "pending"
    /\ store.collections # <<>>
    /\ store.items = <<>>
    /\ selectedItem = NoItem
    /\ store.drawnGeometry = NULL

\* C7: Clear, applied while a search is in flight or after a search failed,
\* leaves loading false and no error message.
C7_ResetReturnsToIdle ==
    [][( /\ lastEvent'.type = "clear"
         /\ \/ \E i \in DOMAIN searches : searches[i] = "pending"
            \/ store.error = "Failed to search items" )
       => (store'.loading = FALSE /\ store'.error = NULL)]_vars

\* C8: the map holds at most one overlay of ItemAssetLayer, and it is the
\* selected item's.
C8_OnlyTheSelectedItemHasAnActiveOverlay ==
    /\ Cardinality(ActiveOverlays) <= 1
    /\ \A l \in ActiveOverlays : selectedItem # NoItem /\ l.itemId = selectedItem.id

\* B was selected after A, whose tile layer the ref of the last effect run
\* that built one still names: only B's tile layer is on the map.
C8_Witness ==
    /\ lastEvent.type = "itemClick"
    /\ selectedItem.id = "B"
    /\ \E l \in mapLayers : l.kind = "tile" /\ l.itemId = "B"
    /\ ~ \E l \in mapLayers : l.itemId = "A"

\* C9: right after the result list was emptied by Clear or by a failed search,
\* no item is selected.
C9_SelectionClearedWithResults ==
    lastEvent.type \in {"clear", "searchItems/rejected"} => selectedItem = NoItem

\* C10: when the selected item's id is the id of no item of the items list,
\* the map holds no tile layer and no outline of ItemAssetLayer.
C10_DanglingSelectionHasNoOverlay ==
    (selectedItem # NoItem /\ selectedItem.id \notin ItemIds) => ActiveOverlays = {}

\* The result extent outlines AllItemsExtentLayer has on the map.
ExtentOverlays == { l \in mapLayers : l.kind = "extent" }

\* The items of the current list that have a geometry.
ItemsWithGeometry == SelectSeq(store.items, LAMBDA it : it.geometry)

\* C11: while the Catalog is rendered, the extent outlines on the map are
\* exactly one per item of the current items list that has a geometry when
\* showAllExtents is set and items is non-empty, and none otherwise; none of
\* a previous list remains and none is duplicated.
C11_ExtentOverlaysMatchItems ==
    mounted =>
        IF showAllExtents /\ Len(store.items) > 0
        THEN /\ { l.itemId : l \in ExtentOverlays }
                    = { it.id : it \in SeqToSet(ItemsWithGeometry) }
             /\ Cardinality(ExtentOverlays) = Len(ItemsWithGeometry)
             /\ ExtentOverlays = SeqToSet(layersRef)
        ELSE ExtentOverlays = {}

\* A search replaced the list that held the selected item A by the list of C
\* (no geometry) and D: the one extent outline on the map is D's.
C11_Witness ==
    /\ lastEvent.type = "searchItems/fulfilled"
    /\ selectedItem.id = "A"
    /\ showAllExtents
    /\ Len(store.items) = 2
    /\ ExtentOverlays # {}
    /\ \A l \in ExtentOverlays : l.itemId = "D"

\* The tile layer ItemAssetLayer has on the map, if any.
ActiveTileLayer == hasLayer(mapLayers, tileLayerRef)

\* C12: while the tile layer on the map has tile fetches outstanding (issued
\* and neither loaded nor errored), tilesLoading is set.
C12_FlagAssertedWhileFetchesOutstanding ==
    (ActiveTileLayer /\ tiles.outstanding > 0) => tilesLoading

\* C13: Clear, and the switch to extent-only display, made while tilesLoading
\* is set for the tile layer on the map, leave tilesLoading false.
C13_FlagClearedWhenOverlayRemoved ==
    [][( /\ tilesLoading
         /\ ActiveTileLayer
         /\ \/ lastEvent'.type = "clear"
            \/ lastEvent'.type = "display" /\ showExtentOnly' /\ ~showExtentOnly )
       => ~tilesLoading']_vars

\* C14: a delayed check scheduled by a tile layer that was since taken off the
\* map leaves tilesLoading as it is.
C14_SupersededLayerLeavesFlag ==
    [][lastEvent'.type = "timeout/superseded" => tilesLoading' = tilesLoading]_vars

\* The events that replace or remove the selected item's tile layer.
LayerEvents == {"clear", "itemClick", "display"}

\* C15: once tilesLoading is set for the tile layer on the map, eventually
\* tilesLoading is cleared, or a selection, Clear or display-mode event has
\* replaced or removed the layer: with every issued tile fetch completing,
\* the flag of a layer that stays on the map does not stay set forever.
C15_FlagEventuallyCleared ==
    (tilesLoading /\ ActiveTileLayer)
        ~> (~tilesLoading \/ lastEvent.type \in LayerEvents)

\* C16: a tile error leaves the store's loading and error fields as they
\* are, and once every tile fetch a tile layer on the map has issued has
\* loaded or errored, tilesLoading is false, whether tiles errored or loaded.
C16_TileErrorCountsAsCompleted ==
    [][ /\ lastEvent'.type = "tileerror"
            => (store' = store /\ tiles'.loadedTiles > tiles.loadedTiles)
        /\ (ActiveTileLayer' /\ tiles'.loadingTiles > 0 /\ tiles'.outstanding = 0)
            => ~tilesLoading' ]_vars

\* The last outstanding tile of a batch of two errored, the store shows no
\* error, and tilesLoading is false.
C16_Witness ==
    /\ lastEvent.type = "tileerror"
    /\ ActiveTileLayer
    /\ tiles.loadingTiles = 1
    /\ tiles.outstanding = 0
    /\ tiles.loadedTiles = 3
    /\ store.error = NULL
    /\ ~tilesLoading

\* The overlays of catalog items on the map: every layer but the drawn AOI.
ItemOverlays == { l \in mapLayers : l.kind # "aoi" }

\* The items the component holds: the list, the selected and the hovered one.
HeldItems == SeqToSet(store.items) \cup {selectedItem, hoveredItem}

\* C17: no overlay on the map (extent outline, hover preview, selected
\* item's outline or tile layer) is the overlay of an item without geometry.
C17_NoOverlayWithoutGeometry ==
    \A l \in ItemOverlays :
        \A it \in HeldItems : it.id = l.itemId => it.geometry

\* The selected item's tile layers and outlines on the map.
TileOverlays == { l \in mapLayers : l.kind = "tile" }
OutlineOverlays == { l \in mapLayers : l.kind = "outline" }

\* C18: while an item is selected, in extent-only display the map has no tile
\* layer and has the item's outline (if it has a geometry); in imagery
\* display the map has the item's tile layer (if it has a tiles asset) and no
\* outline.
C18_DisplayModeSelectsOverlay ==
    (mounted /\ selectedItem # NoItem) =>
        IF showExtentOnly
        THEN /\ TileOverlays = {}
             /\ IF selectedItem.geometry
                THEN /\ Cardinality(OutlineOverlays) = 1
                     /\ \A l \in OutlineOverlays : l.itemId = selectedItem.id
                ELSE OutlineOverlays = {}
        ELSE /\ OutlineOverlays = {}
             /\ IF selectedItem.tiles
                THEN /\ Cardinality(TileOverlays) = 1
                     /\ \A l \in TileOverlays : l.itemId = selectedItem.id
                ELSE TileOverlays = {}

\* The display was switched to extent-only while A was selected: A's outline
\* is on the map and the tile layer the ref still names is not.
C18_Witness ==
    /\ lastEvent.type = "display"
    /\ showExtentOnly
    /\ selectedItem.id = "A"
    /\ tileLayerRef.itemId = "A"
    /\ tileLayerRef \notin mapLayers
    /\ \E l \in mapLayers : l.kind = "outline" /\ l.itemId = "A"

\* The hover previews HoverExtentLayer has on the map.
PreviewOverlays == { l \in mapLayers : l.kind = "preview" }

\* C19: the map has the hover preview exactly while an item is hovered whose
\* id is not the selected item's and that has a geometry; it is that item's
\* preview and the only one.
C19_PreviewFollowsHover ==
    IF hoveredItem # NoItem /\ hoveredItem.id # selectedItem.id /\ hoveredItem.geometry
    THEN /\ Cardinality(PreviewOverlays) = 1
         /\ \A l \in PreviewOverlays : l.itemId = hoveredItem.id /\ l = hoverLayerRef
    ELSE PreviewOverlays = {}

\* The hovered item A was clicked: it is selected and hovered, and its
\* preview is off the map.
C19_Witness ==
    /\ lastEvent.type = "itemClick"
    /\ hoveredItem.id = "A"
    /\ selectedItem = hoveredItem
    /\ PreviewOverlays = {}
    /\ \E l \in mapLayers : l.kind = "tile" /\ l.itemId = "A"

\* The drawn AOI shapes on the map.
AoiOverlays == { l \in mapLayers : l.kind = "aoi" }

\* C20: the editable group and the map hold at most one drawn AOI shape, the
\* same one, which is the shape drawn last unless it was deleted or cleared.
C20_AtMostOneDrawnShape ==
    /\ Cardinality(featureGroup) <= 1
    /\ Cardinality(AoiOverlays) <= 1
    /\ featureGroup = AoiOverlays
    /\ featureGroup = IF drawnLayer = NoLayer THEN {} ELSE {drawnLayer}

\* A second shape was drawn while the first was in the group: the group and
\* the map hold the second shape only.
C20_Witness ==
    /\ lastEvent.type = "draw:created"
    /\ drawnLayer.id = 2
    /\ store.drawnGeometry = "shape2"
    /\ featureGroup = {drawnLayer}
    /\ AoiOverlays = {drawnLayer}

\* The request handleSearch would issue from the current state, in the time
\* zone given.
SearchRequestNow(timeZone) ==
    searchItemsAsync(handleSearchParams(selectedCollections, startDate, endDate,
                                        store.drawnGeometry),
                     timeZone)

\* C21: after a draw-delete event the stored drawn geometry is null, and a
\* search issued while it is null (the next one after the deletion included)
\* is issued with a body that has no intersects field.
C21_DeleteClearsAoi ==
    /\ lastEvent.type = "draw:deleted" =>
          /\ store.drawnGeometry = NULL
          /\ \A timeZone \in TimeZones :
                /\ SearchRequestNow(timeZone).issued
                /\ ~Has(SearchRequestNow(timeZone).body, "intersects")
    /\ (lastEvent.type = "searchItems/pending" /\ store.drawnGeometry = NULL) =>
          /\ lastEvent.request.issued
          /\ ~Has(lastEvent.request.body, "intersects")

\* The drawn shape has just been deleted: nothing is left of it in the
\* group, on the map or in the store.
C21_Witness ==
    /\ lastEvent.type = "draw:deleted"
    /\ store.drawnGeometry = NULL
    /\ drawnLayer = NoLayer
    /\ featureGroup = {}

\* The polygon a geoJsonToGeometry argument stands for: itself, or the
\* geometry of a Feature.
GeometryOf(geoJson) == IF geoJson.type = "Feature" THEN geoJson.geometry ELSE geoJson
IsPolygon(geoJson) ==
    /\ GeometryOf(geoJson).type = "Polygon"
    /\ GeometryOf(geoJson).hasCoordinates
RingClosed(ring) == ring = <<>> \/ ring[1] = ring[Len(ring)]

\* C22: for a Polygon, bare or in a Feature, the result is the polygon with
\* every ring closed: a closed ring as it was, an open one with a copy of
\* its first pair appended.
C22_EveryRingClosed ==
    (call.fn = "geoJsonToGeometry" /\ call.done /\ IsPolygon(call.arg.geoJson)) =>
        LET given == GeometryOf(call.arg.geoJson).coordinates
        IN  /\ call.result # NoGeoJson
            /\ call.result.type = "Polygon"
            /\ Len(call.result.coordinates) = Len(given)
            /\ \A i \in 1..Len(given) :
                  /\ RingClosed(call.result.coordinates[i])
                  /\ call.result.coordinates[i] =
                        IF RingClosed(given[i]) THEN given[i]
                        ELSE Append(given[i], given[i][1])

\* C23: validating a result of the validator returns that result, and a
\* polygon whose rings are closed is returned as it was given.
C23_Idempotent ==
    (call.fn = "geoJsonToGeometry" /\ call.done) =>
        /\ geoJsonToGeometry(call.result) = call.result
        /\ (/\ IsPolygon(call.arg.geoJson)
            /\ call.arg.geoJson.type = "Polygon"
            /\ \A i \in 1..Len(call.arg.geoJson.coordinates) :
                  RingClosed(call.arg.geoJson.coordinates[i]))
              => call.result = call.arg.geoJson

\* C24: the result is null or a geometry of one of the six types that has
\* coordinates, for a Feature as for a bare geometry.
C24_NullOrValidGeometry ==
    (call.fn = "geoJsonToGeometry" /\ call.done) =>
        \/ call.result = NoGeoJson
        \/ /\ call.result.type \in GeometryTypes
           /\ call.result.hasCoordinates

\* A finished call of the searchItems thunk, its parameters and its result.
SearchCallDone == call.fn = "searchItemsAsync" /\ call.done
DateGiven(params, key) == Has(params, key) /\ params[key] # NoDate

\* C25: when the validator answers null for the AOI, the thunk ends as it
\* does for the same parameters without the AOI: the request is issued
\* unless a date is invalid, with the same body, which has no intersects.
C25_InvalidAoiDegradesToNoAoi ==
    (/\ SearchCallDone
     /\ Has(call.arg.searchParams, "geoJson")
     /\ geoJsonToGeometry(call.arg.searchParams.geoJson) = NoGeoJson) =>
        /\ call.result =
              searchItemsAsync(Without(call.arg.searchParams, "geoJson"),
                               call.arg.timeZone)
        /\ call.result.issued <=>
              (/\ DateParam(call.arg.searchParams, "startDate") # InvalidDate
               /\ DateParam(call.arg.searchParams, "endDate") # InvalidDate)
        /\ call.result.issued => ~Has(call.result.body, "intersects")

\* A geometry of a type that is not accepted was given with collections and
\* dates: the request went out with collections, datetime and limit.
C25_Witness ==
    /\ SearchCallDone
    /\ Has(call.arg.searchParams, "geoJson")
    /\ call.arg.searchParams.geoJson.type = "GeometryCollection"
    /\ call.result.issued
    /\ DOMAIN call.result.body = {"limit", "collections", "datetime"}

\* C26: the body has limit and, of bbox, intersects, datetime, collections
\* and next, those that were supplied: bbox with bounds, intersects only
\* with a geoJson, datetime with a start or end date, collections when not
\* empty and next when not empty, both as given; it has no other field.
C26_RequestBodyFields ==
    (SearchCallDone /\ call.result.issued) =>
        LET params == call.arg.searchParams
            body   == call.result.body
        IN  /\ DOMAIN body \subseteq
                  {"limit", "bbox", "intersects", "datetime", "collections", "next"}
            /\ Has(body, "limit")
            /\ Has(body, "bbox") <=> Has(params, "bounds")
            /\ Has(body, "intersects") =>
                  (Has(params, "geoJson") /\ params.geoJson # NoGeoJson)
            /\ Has(body, "datetime") <=>
                  (DateGiven(params, "startDate") \/ DateGiven(params, "endDate"))
            /\ Has(body, "collections") <=>
                  (Has(params, "collections") /\ params.collections # <<>>)
            /\ Has(body, "collections") => body.collections = params.collections
            /\ Has(body, "next") <=> (Has(params, "next") /\ params.next # "")
            /\ Has(body, "next") => body.next = params.next

\* Every key was given, an unknown one and the raw filter fields included:
\* the body has the six fields.
C26_Witness ==
    /\ SearchCallDone
    /\ call.result.issued
    /\ DOMAIN call.arg.searchParams =
          {"collections", "startDate", "endDate", "geoJson", "bounds", "limit",
           "next", "query"}
    /\ DOMAIN call.result.body =
          {"limit", "bbox", "intersects", "datetime", "collections", "next"}

\* C27: the limit of the body is the limit given, whatever integer it is,
\* and 100 when none is given.
C27_LimitAsSuppliedOrDefault ==
    (SearchCallDone /\ call.result.issued) =>
        call.result.body.limit =
            IF Has(call.arg.searchParams, "limit")
            THEN call.arg.searchParams.limit
            ELSE 100

\* A finished call of formatDateRange on the values of the date inputs.
DateCallDone == call.fn = "formatDateRange" /\ call.done
ISOString(date, hours, minutes, seconds, milliseconds) ==
    [date |-> date, hours |-> hours, minutes |-> minutes, seconds |-> seconds,
     milliseconds |-> milliseconds]

\* C28: in every time zone the range starts at 00:00:00.000Z of the start
\* date and ends at 23:59:59.999Z of the end date.
C28_EndOfSameCalendarDay ==
    DateCallDone =>
        /\ Truthy(call.arg.startDate) =>
              call.result.start = ISOString(call.arg.startDate, 0, 0, 0, 0)
        /\ Truthy(call.arg.endDate) =>
              call.result.end = ISOString(call.arg.endDate, 23, 59, 59, 999)

\* C29: the range is start/.. for a start date only, ../end for an end date
\* only, start/end for both and null for neither; the request has a datetime
\* field exactly when a date was given.
C29_DatetimeForm ==
    /\ DateCallDone =>
          LET start == Truthy(call.arg.startDate)
              end   == Truthy(call.arg.endDate)
          IN  /\ (~start /\ ~end) => call.result = NoDatetime
              /\ (start \/ end) =>
                    /\ DOMAIN call.result = {"start", "end"}
                    /\ call.result.start =
                          IF start
                          THEN toISOString(NewDate(call.arg.startDate))
                          ELSE OpenEnd
                    /\ (call.result.end = OpenEnd) <=> ~end
                    /\ end => call.result.end.date \in CalendarDates \ {""}
    /\ (SearchCallDone /\ call.result.issued) =>
          /\ Has(call.result.body, "datetime") <=>
                (\/ DateGiven(call.arg.searchParams, "startDate")
                 \/ DateGiven(call.arg.searchParams, "endDate"))
          /\ Has(call.result.body, "datetime") =>
                call.result.body.datetime =
                    formatDateRange(DateParam(call.arg.searchParams, "startDate"),
                                    DateParam(call.arg.searchParams, "endDate"),
                                    call.arg.timeZone)

\* Only a start date was given: the range is open at its end.
C29_Witness ==
    /\ DateCallDone
    /\ call.arg.startDate = "2020-01-01"
    /\ call.arg.endDate = ""
    /\ call.result = DateRange(ISOString("2020-01-01", 0, 0, 0, 0), OpenEnd)

\* A finished call of the two URL formatters on one href.
UrlCallDone == call.fn = "formatUrls" /\ call.done

\* C30: the two templates of an href have the same parts, except that the
\* viewer template has {y} where the exchange template has {-y}, and that is
\* the only form of the row placeholder in each.
C30_TemplatesDifferInRowPlaceholderOnly ==
    UrlCallDone =>
        LET viewer   == call.result.viewer
            exchange == call.result.exchange
        IN  /\ Len(viewer) = Len(exchange)
            /\ Includes(viewer, "{y}")
            /\ \A i \in DOMAIN viewer :
                  \/ viewer[i] = exchange[i] /\ viewer[i] \notin {"{y}", "{-y}"}
                  \/ viewer[i] = "{y}" /\ exchange[i] = "{-y}"

\* C31: formatting a viewer template again returns it as it is, and so does
\* formatting an exchange template again.
C31_TemplatesAreFixedPoints ==
    UrlCallDone =>
        /\ formatXYZUrl(call.result.viewer, call.arg.protocol) = call.result.viewer
        /\ formatQGISArcGISUrl(call.result.exchange, call.arg.protocol)
              = call.result.exchange

\* C32: the template of the tile layer is the viewer template of the same
\* href and protocol; its scheme is https when the href is http and the page
\* is served over https, and the scheme of the href otherwise.
C32_TileLayerUsesViewerTemplate ==
    UrlCallDone =>
        /\ call.result.tileUrl = call.result.viewer
        /\ call.result.tileUrl[1] =
              IF startsWith(call.arg.assetHref, "http://")
                 /\ call.arg.protocol = "https:"
              THEN "https://"
              ELSE call.arg.assetHref[1]

\* An http href without placeholders on a page served over https: the tile
\* layer's template is upgraded and has the placeholders appended.
C32_Witness ==
    /\ UrlCallDone
    /\ call.arg.assetHref = <<"http://", "host", "/", "tiles">>
    /\ call.arg.protocol = "https:"
    /\ call.result.tileUrl =
          <<"https://", "host", "/", "tiles", "/", "{z}", "/", "{x}", "/", "{y}", ".png">>

\* The oldest pending search has just settled.
OldestSearchSettled ==
    /\ lastEvent.type \in {"searchItems/fulfilled", "searchItems/rejected"}
    /\ lastEvent.search = 1

\* C33: when the transport answers every call, the oldest pending search
\* settles, which moves every search behind it forward, so every search
\* settles; a search that settles leaves the state Ready or Failed, and
\* loading does not stay true.
C33_SearchEventuallyLeavesLoading ==
    /\ (searches # <<>> /\ ~OldestSearchSettled) ~> OldestSearchSettled
    /\ \A n \in 1..MaxSearches :
          (Len(searches) = n /\ OldestSearchSettled)
              ~> (Len(searches) < n \/ ~OldestSearchSettled)
    /\ [](lastEvent.type = "searchItems/fulfilled" => SearchStatus = "Ready")
    /\ [](lastEvent.type = "searchItems/rejected" => SearchStatus = "Failed")
    /\ store.loading ~> ~store.loading

\* A search has failed: its promise is rejected, and the state is Failed.
C33_Witness ==
    /\ lastEvent.type = "searchItems/rejected"
    /\ lastEvent.search = 1
    /\ searches = <<>>
    /\ SearchStatus = "Failed"

\* The searches whose promise is pending.
PendingSearches == { i \in DOMAIN searches : searches[i] = "pending" }

\* C34: a search that was in flight when Clear was pressed and settles next
\* leaves the items and the continuation token empty.
C34_LateResolutionAfterClearIsDiscarded ==
    [][(/\ lastEvent.type = "clear"
        /\ lastEvent'.type \in {"searchItems/fulfilled", "searchItems/rejected"})
           => (/\ store'.items = <<>>
               /\ store'.pagination.next = NULL
               /\ ~store'.pagination.hasMore)]_vars

\* C35: while the promise of a search is pending, loading is true.
C35_LoadingWhileSearchPending ==
    PendingSearches # {} => store.loading

\* C36: at most one search is in flight.
C36_AtMostOneSearchInFlight ==
    Cardinality(PendingSearches) <= 1

\* C38: when a search has failed, the pagination state is empty.
C38_FailedSearchEmptiesPagination ==
    lastEvent.type = "searchItems/rejected" =>
        (store.pagination.next = NULL /\ ~store.pagination.hasMore)

\* C37: while loading is true the error is null.
C37_LoadingImpliesNoError ==
    store.loading => store.error = NULL

\* A second search has been issued while the first is in flight: loading is
\* true and there is no error.
C37_Witness ==
    /\ lastEvent.type = "searchItems/pending"
    /\ Len(searches) = 2
    /\ store.loading
    /\ store.error = NULL

\* C39: while the tile loading flag is set, an item is selected, the display
\* mode is imagery and the tile layer of that item is on the map.
C39_FlagOnlyWithActiveTileLayer ==
    tilesLoading =>
        /\ selectedItem # NoItem
        /\ ~showExtentOnly
        /\ tileLayerRef # NoLayer
        /\ tileLayerRef \in mapLayers
        /\ tileLayerRef.itemId = selectedItem.id

\* C40: a hover preview on the map is the preview of an item of the items
\* list.
C40_PreviewOfListedItemOnly ==
    \A l \in PreviewOverlays : l.itemId \in ItemIds

====
